---- MODULE Spec2Model ----
(***************************************************************************)
(* Bayesian single change-point analysis (brent-oil-change-point-analysis) *)
(*                                                                         *)
(* The model follows src/models/bayesian_changepoint.py: one               *)
(* BayesianChangePointModel instance with its attributes data,             *)
(* n_observations, model and trace, and the operations __init__,           *)
(* build_model, fit and the four getters.  The tau draws of a trace are    *)
(* kept as a (chain, draw) array; the point estimates are computed from    *)
(* the flattened draws as numpy computes them.                             *)
(***************************************************************************)
EXTENDS Integers, Sequences, FiniteSets, TLC

(***************************************************************************)
(* Bounds of the model.                                                    *)
(***************************************************************************)
MaxN == 4
MaxL == 2
MaxFits == 2
MaxDraws == 3

SeriesLengths == 0..MaxN
SegmentLengths == (0 - 1)..MaxL
DefaultPriorStdScale == 2
PriorStdScales == {DefaultPriorStdScale, 3}
ChainCounts == {1, 2}
SampleCounts == {1}
\* confidence levels, as fractions <<numerator, denominator>>
DefaultConfidence == <<94, 100>>
Confidences == {<<1, 2>>, DefaultConfidence}
DefaultMethod == "mean"
Methods == {DefaultMethod, "median", "mode", "max"}

\* Python's None
None == [none |-> TRUE]

VARIABLES data, n_observations, model, trace, fits, last, events, changepoints, batch

vars == <<data, n_observations, model, trace, fits, last, events, changepoints, batch>>

(***************************************************************************)
(* Helpers on sequences of integers.                                       *)
(***************************************************************************)
RECURSIVE SumSeq(_)
SumSeq(s) == IF s = <<>> THEN 0 ELSE Head(s) + SumSeq(Tail(s))

RECURSIVE Flatten(_)
Flatten(chains) == IF chains = <<>> THEN <<>> ELSE Head(chains) \o Flatten(Tail(chains))

Count(s, v) == Cardinality({i \in 1..Len(s) : s[i] = v})

Values(s) == {s[i] : i \in 1..Len(s)}

RECURSIVE SeqsOfLen(_, _)
SeqsOfLen(S, k) ==
    IF k = 0 THEN {<<>>}
    ELSE {<<x>> \o t : x \in S, t \in SeqsOfLen(S, k - 1)}

RECURSIVE Insert(_, _)
Insert(v, s) ==
    IF s = <<>> THEN <<v>>
    ELSE IF v <= Head(s) THEN <<v>> \o s
    ELSE <<Head(s)>> \o Insert(v, Tail(s))

\* numpy.sort: the draws in ascending order
RECURSIVE Sorted(_)
Sorted(s) == IF s = <<>> THEN <<>> ELSE Insert(Head(s), Sorted(Tail(s)))

\* int(numpy.round(num / den)) for den > 0: numpy rounds halves to the even integer
RoundHalfEven(num, den) ==
    LET q == num \div den
        r == num - q * den
    IN  IF 2 * r < den THEN q
        ELSE IF 2 * r > den THEN q + 1
        ELSE IF q % 2 = 0 THEN q ELSE q + 1

(***************************************************************************)
(* BayesianChangePointModel.__init__                                       *)
(***************************************************************************)
Inputs ==
    {[kind |-> k, len |-> n, nan |-> b, datetime_index |-> d] :
        k \in {"Series", "list"}, n \in SeriesLengths, b \in BOOLEAN, d \in BOOLEAN}

\* a value that can be passed as data: only a non-empty series can hold a NaN,
\* only a pandas Series carries an index
ValidInput(x) ==
    /\ (x.nan => x.len > 0)
    /\ (x.kind = "list" => ~x.datetime_index)

\* the constructor without its missing-value check
InitErrorNaNAccepted(x) ==
    IF x.kind # "Series" THEN "TypeError"
    ELSE IF x.len = 0 THEN "ValueError"
    ELSE "ok"

InitError(x) ==
    IF x.kind # "Series" THEN "TypeError"
    ELSE IF x.len = 0 THEN "ValueError"
    ELSE IF x.nan THEN "ValueError"
    ELSE "ok"

Construct(x) ==
    /\ data = None
    /\ ValidInput(x)
    /\ IF InitError(x) = "ok"
       THEN /\ data' = x
            /\ n_observations' = x.len
            /\ model' = None
            /\ trace' = None
       ELSE UNCHANGED <<data, n_observations, model, trace>>
    /\ last' = [op |-> "__init__", args |-> x, outcome |-> InitError(x), value |-> None]
    /\ UNCHANGED <<fits, events, changepoints, batch>>

(***************************************************************************)
(* BayesianChangePointModel.build_model                                    *)
(***************************************************************************)
\* build_model with its guard off by one: 2L = N is let through
MinSegmentTooLargeStrict(min_segment_length, n) == min_segment_length * 2 > n

\* the guard of build_model
MinSegmentTooLarge(min_segment_length, n) == min_segment_length * 2 >= n

\* tau ~ DiscreteUniform(lower, upper)
TauLower(min_segment_length, n) == min_segment_length

TauUpper(min_segment_length, n) == n - min_segment_length - 1

\* pm.math.switch(tau >= idx, mu_1, mu_2): the regime of observation idx
Regime(tau, idx) == IF tau >= idx THEN "before" ELSE "after"

PyMCModel(prior_std_scale, min_segment_length, n) ==
    [tau_lower |-> TauLower(min_segment_length, n),
     tau_upper |-> TauUpper(min_segment_length, n),
     prior_std_scale |-> prior_std_scale,
     n_obs |-> n]

\* the values tau can take under a built model
TauSupport(m) == m.tau_lower..m.tau_upper

\* the observations the likelihood of model m puts in a regime when tau = t
Segment(m, t, regime) == {idx \in 0..(m.n_obs - 1) : Regime(t, idx) = regime}

BuildModel(prior_std_scale, min_segment_length) ==
    /\ data # None
    /\ IF MinSegmentTooLarge(min_segment_length, n_observations)
       THEN /\ UNCHANGED model
            /\ last' = [op |-> "build_model",
                        args |-> <<prior_std_scale, min_segment_length>>,
                        outcome |-> "ValueError", value |-> None]
       ELSE /\ model' = PyMCModel(prior_std_scale, min_segment_length, n_observations)
            /\ last' = [op |-> "build_model",
                        args |-> <<prior_std_scale, min_segment_length>>,
                        outcome |-> "ok", value |-> model']
    /\ UNCHANGED <<data, n_observations, trace, fits, events, changepoints, batch>>

(***************************************************************************)
(* BayesianChangePointModel.fit                                            *)
(***************************************************************************)
\* the posterior['tau'] arrays pm.sample can return: chains x samples draws,
\* each in the support of tau
TauDraws(m, samples, chains) == SeqsOfLen(SeqsOfLen(TauSupport(m), samples), chains)

\* pm.sample returns a new InferenceData object on every call
Sample(m, draws, k) == [id |-> k, posterior |-> [tau |-> draws], sampled_from |-> m]

\* fit without its state check: it returns quietly instead of raising
FitRejectedSilently(samples, chains) ==
    /\ data # None
    /\ model = None
    /\ last' = [op |-> "fit", args |-> <<samples, chains>>, outcome |-> "ok", value |-> None]
    /\ UNCHANGED <<data, n_observations, model, trace, fits, events, changepoints, batch>>

FitRejected(samples, chains) ==
    /\ data # None
    /\ model = None
    /\ last' = [op |-> "fit", args |-> <<samples, chains>>,
                outcome |-> "RuntimeError", value |-> None]
    /\ UNCHANGED <<data, n_observations, model, trace, fits, events, changepoints, batch>>

\* a fit that drops the stored trace when sampling raises
FitSamplingFailsTraceLost(samples, chains) ==
    /\ data # None
    /\ model # None
    /\ trace' = None
    /\ last' = [op |-> "fit", args |-> <<samples, chains>>,
                outcome |-> "SamplingError", value |-> None]
    /\ UNCHANGED <<data, n_observations, model, fits, events, changepoints, batch>>

\* pm.sample raises: the assignment to self.trace never happens
FitSamplingFails(samples, chains) ==
    /\ data # None
    /\ model # None
    /\ last' = [op |-> "fit", args |-> <<samples, chains>>,
                outcome |-> "SamplingError", value |-> None]
    /\ UNCHANGED <<data, n_observations, model, trace, fits, events, changepoints, batch>>

\* fit that keeps the first trace and only returns the later ones
FitSamplesKeepFirst(samples, chains) ==
    /\ data # None
    /\ model # None
    /\ fits < MaxFits
    /\ \E draws \in TauDraws(model, samples, chains) :
          /\ trace' = IF trace = None THEN Sample(model, draws, fits + 1) ELSE trace
          /\ last' = [op |-> "fit", args |-> <<samples, chains>>,
                      outcome |-> "ok", value |-> Sample(model, draws, fits + 1)]
    /\ fits' = fits + 1
    /\ UNCHANGED <<data, n_observations, model, events, changepoints, batch>>

FitSamples(samples, chains) ==
    /\ data # None
    /\ model # None
    /\ fits < MaxFits
    /\ \E draws \in TauDraws(model, samples, chains) :
          /\ trace' = Sample(model, draws, fits + 1)
          /\ last' = [op |-> "fit", args |-> <<samples, chains>>,
                      outcome |-> "ok", value |-> trace']
    /\ fits' = fits + 1
    /\ UNCHANGED <<data, n_observations, model, events, changepoints, batch>>

Fit(samples, chains) ==
    \/ FitRejected(samples, chains)
    \/ FitSamplingFails(samples, chains)
    \/ FitSamples(samples, chains)

(***************************************************************************)
(* The getters                                                             *)
(***************************************************************************)
Call(op, args, outcome, value) ==
    [op |-> op, args |-> args, outcome |-> outcome, value |-> value]

\* get_trace without its state check
GetTraceUnchecked ==
    /\ data # None
    /\ last' = Call("get_trace", <<>>, "ok", trace)
    /\ UNCHANGED <<data, n_observations, model, trace, fits, events, changepoints, batch>>

GetTrace ==
    /\ data # None
    /\ last' = IF trace = None
               THEN Call("get_trace", <<>>, "RuntimeError", None)
               ELSE Call("get_trace", <<>>, "ok", trace)
    /\ UNCHANGED <<data, n_observations, model, trace, fits, events, changepoints, batch>>

\* az.summary(self.trace): a table computed from the trace
GetSummary ==
    /\ data # None
    /\ last' = IF trace = None
               THEN Call("get_summary", <<>>, "RuntimeError", None)
               ELSE Call("get_summary", <<>>, "ok", [summary_of |-> trace.id])
    /\ UNCHANGED <<data, n_observations, model, trace, fits, events, changepoints, batch>>

GetParameterEstimates ==
    /\ data # None
    /\ last' = IF trace = None
               THEN Call("get_parameter_estimates", <<>>, "RuntimeError", None)
               ELSE Call("get_parameter_estimates", <<>>, "ok", [estimates_of |-> trace.id])
    /\ UNCHANGED <<data, n_observations, model, trace, fits, events, changepoints, batch>>

\* int(np.mean(tau_samples)): the mean truncated, not rounded
MeanTruncated(s) == SumSeq(s) \div Len(s)

\* int(np.round(np.mean(tau_samples)))
MeanEstimate(s) == RoundHalfEven(SumSeq(s), Len(s))

\* int(np.round(np.median(tau_samples)))
MedianEstimate(s) ==
    LET t == Sorted(s)
        n == Len(s)
    IN  IF n % 2 = 1 THEN t[(n + 1) \div 2]
        ELSE RoundHalfEven(t[n \div 2] + t[n \div 2 + 1], 2)

\* np.bincount(tau_samples).max(): the highest count, not the value that has it
ModeCount(s) ==
    CHOOSE k \in 1..Len(s) :
        /\ \E v \in Values(s) : Count(s, v) = k
        /\ \A w \in Values(s) : Count(s, w) <= k

\* np.bincount(tau_samples).argmax(): the first (smallest) of the most frequent values
ModeEstimate(s) ==
    CHOOSE v \in Values(s) :
        /\ \A w \in Values(s) : Count(s, w) <= Count(s, v)
        /\ \A w \in Values(s) : Count(s, w) = Count(s, v) => v <= w

\* the point estimate of tau; np.bincount raises ValueError on a negative element
TauEstimate(s, method) ==
    IF method = "mean" THEN [outcome |-> "ok", index |-> MeanEstimate(s)]
    ELSE IF method = "median" THEN [outcome |-> "ok", index |-> MedianEstimate(s)]
    ELSE IF method = "mode"
         THEN IF \E i \in 1..Len(s) : s[i] < 0
              THEN [outcome |-> "ValueError"]
              ELSE [outcome |-> "ok", index |-> ModeEstimate(s)]
    ELSE [outcome |-> "ValueError"]

\* data.index[i]: the timestamps are named by their position; a negative i counts
\* from the end and an i outside [-n, n) raises IndexError
IndexLookup(n, i) ==
    IF i >= n \/ i < 0 - n THEN [outcome |-> "IndexError"]
    ELSE [outcome |-> "ok", date |-> IF i < 0 THEN n + i ELSE i]

ChangepointEstimate(d, tr, method) ==
    IF tr = None THEN Call("get_changepoint_estimate", method, "RuntimeError", None)
    ELSE LET est == TauEstimate(Flatten(tr.posterior.tau), method)
         IN  IF est.outcome # "ok"
             THEN Call("get_changepoint_estimate", method, est.outcome, None)
             ELSE IF ~d.datetime_index
             THEN Call("get_changepoint_estimate", method, "ok",
                       [index |-> est.index, method |-> method])
             ELSE LET at == IndexLookup(d.len, est.index)
                  IN  IF at.outcome # "ok"
                      THEN Call("get_changepoint_estimate", method, at.outcome, None)
                      ELSE Call("get_changepoint_estimate", method, "ok",
                                [index |-> est.index, method |-> method, date |-> at.date])

GetChangepointEstimate(method) ==
    /\ data # None
    /\ last' = ChangepointEstimate(data, trace, method)
    /\ UNCHANGED <<data, n_observations, model, trace, fits, events, changepoints, batch>>

(***************************************************************************)
(* ChangePointAnalyzer.identify_changepoints                               *)
(***************************************************************************)
HdiSwapped(s, hdi_prob) ==
    LET t == Sorted(s)
        interval_idx_inc == (hdi_prob[1] * Len(s)) \div hdi_prob[2]
    IN  <<t[1 + interval_idx_inc], t[1]>>

\* az.hdi over the flattened draws: the narrowest interval of the sorted draws
\* that spans floor(hdi_prob * n) steps (the first one when several are narrowest)
Hdi(s, hdi_prob) ==
    LET t == Sorted(s)
        n == Len(s)
        interval_idx_inc == (hdi_prob[1] * n) \div hdi_prob[2]
        n_intervals == n - interval_idx_inc
        interval_width == [i \in 1..n_intervals |-> t[i + interval_idx_inc] - t[i]]
        min_idx == CHOOSE i \in 1..n_intervals :
                      /\ \A j \in 1..n_intervals : interval_width[i] <= interval_width[j]
                      /\ \A j \in 1..(i - 1) : interval_width[j] # interval_width[i]
    IN  <<t[min_idx], t[min_idx + interval_idx_inc]>>

\* np.std(tau_samples) squared and scaled by n^2, to stay in the integers
StdSquaredTimesN2(s) ==
    Len(s) * SumSeq([i \in 1..Len(s) |-> s[i] * s[i]]) - SumSeq(s) * SumSeq(s)

IdentifyResult(tr, d, confidence, method) ==
    LET args == <<method, confidence, tr.id>>
    IN  IF "posterior" \notin DOMAIN tr
        THEN Call("identify_changepoints", args, "ValueError", None)
        ELSE IF "tau" \notin DOMAIN tr.posterior
        THEN Call("identify_changepoints", args, "ValueError", None)
        ELSE LET tau_samples == Flatten(tr.posterior.tau)
                 est == TauEstimate(tau_samples, method)
                 hdi == Hdi(tau_samples, confidence)
                 changepoint == [index |-> est.index,
                                 estimate_method |-> method,
                                 credible_interval |-> hdi,
                                 ci_probability |-> confidence,
                                 posterior_std |-> StdSquaredTimesN2(tau_samples),
                                 posterior_samples |-> Len(tau_samples)]
                 at == IndexLookup(d.len, est.index)
                 lo == IndexLookup(d.len, hdi[1])
                 hi == IndexLookup(d.len, hdi[2])
             IN  IF est.outcome # "ok"
                 THEN Call("identify_changepoints", args, est.outcome, None)
                 ELSE IF ~d.datetime_index
                 THEN Call("identify_changepoints", args, "ok", <<changepoint>>)
                 ELSE IF at.outcome # "ok" \/ lo.outcome # "ok" \/ hi.outcome # "ok"
                 THEN Call("identify_changepoints", args, "IndexError", None)
                 ELSE Call("identify_changepoints", args, "ok",
                           <<[index |-> est.index,
                              estimate_method |-> method,
                              credible_interval |-> hdi,
                              ci_probability |-> confidence,
                              posterior_std |-> StdSquaredTimesN2(tau_samples),
                              posterior_samples |-> Len(tau_samples),
                              date |-> at.date,
                              ci_dates |-> <<lo.date, hi.date>>]>>)

\* InferenceData objects a caller can hand to the analyzer instead of a fitted
\* trace: one without a posterior group, one whose posterior has no tau
MalformedTraces == {[id |-> 0], [id |-> 0, posterior |-> [mu_1 |-> <<>>]]}

IdentifyChangepoints(tr, confidence, method) ==
    /\ data # None
    /\ trace # None
    /\ tr \in {trace} \cup MalformedTraces
    /\ last' = IdentifyResult(tr, data, confidence, method)
    /\ UNCHANGED <<data, n_observations, model, trace, fits, events, changepoints, batch>>

(***************************************************************************)
(* The lifecycle of one instance                                           *)
(***************************************************************************)
Init ==
    /\ data = None
    /\ n_observations = 0
    /\ model = None
    /\ trace = None
    /\ fits = 0
    /\ last = Call("none", <<>>, "ok", None)
    /\ events = None
    /\ changepoints = <<>>
    /\ batch = None

Next ==
    \/ \E x \in Inputs : Construct(x)
    \/ \E s \in PriorStdScales, l \in SegmentLengths : BuildModel(s, l)
    \/ \E n \in SampleCounts, c \in ChainCounts : Fit(n, c)
    \/ GetTrace
    \/ GetSummary
    \/ GetParameterEstimates
    \/ \E m \in Methods : GetChangepointEstimate(m)

Spec == Init /\ [][Next]_vars

(***************************************************************************)
(* A fitted instance, queried for its change point                         *)
(***************************************************************************)
\* the shapes (samples, chains) of the traces a fit call can produce
TraceShapes == {sh \in (1..MaxDraws) \X ChainCounts : sh[1] * sh[2] <= MaxDraws}

\* an instance built with the default prior_std_scale and fitted once
InitFitted ==
    \E x \in Inputs, l \in SegmentLengths, sh \in TraceShapes :
        /\ ValidInput(x)
        /\ InitError(x) = "ok"
        /\ ~MinSegmentTooLarge(l, x.len)
        /\ data = x
        /\ n_observations = x.len
        /\ model = PyMCModel(DefaultPriorStdScale, l, x.len)
        /\ fits = 1
        /\ \E draws \in TauDraws(PyMCModel(DefaultPriorStdScale, l, x.len), sh[1], sh[2]) :
              trace = Sample(PyMCModel(DefaultPriorStdScale, l, x.len), draws, 1)
        /\ last = Call("fit", sh, "ok", trace)
        /\ events = None
        /\ changepoints = <<>>
        /\ batch = None

\* the (method, confidence) pairs the analyzer is called with: every method at the
\* default confidence and every confidence with the default method
IdentifyArguments ==
    {<<m, DefaultConfidence>> : m \in Methods} \cup {<<DefaultMethod, c>> : c \in Confidences}

NextFitted ==
    \/ \E m \in Methods : GetChangepointEstimate(m)
    \/ \E a \in IdentifyArguments : IdentifyChangepoints(trace, a[2], a[1])
    \/ \E tr \in MalformedTraces : IdentifyChangepoints(tr, DefaultConfidence, DefaultMethod)

SpecFitted == InitFitted /\ [][NextFitted]_vars

(***************************************************************************)
(* ChangePointAnalyzer.quantify_impact                                     *)
(***************************************************************************)
RECURSIVE GCD(_, _)
GCD(a, b) == IF b = 0 THEN a ELSE GCD(b, a % b)

\* a real number num/den in lowest terms with den > 0; 1/0 stands for np.inf
Rat(n, d) ==
    LET g == GCD(IF n < 0 THEN 0 - n ELSE n, d)
    IN  IF g = 0 THEN [num |-> 0, den |-> 0] ELSE [num |-> n \div g, den |-> d \div g]

Infinity == Rat(1, 0)

RatAbs(a) == Rat(IF a.num < 0 THEN 0 - a.num ELSE a.num, a.den)

RatSub(a, b) == Rat(a.num * b.den - b.num * a.den, a.den * b.den)

RatLess(a, b) == a.num * b.den < b.num * a.den

MeanUndivided(s) == Rat(SumSeq(s), 1)

\* float(np.mean(samples))
Mean(s) == Rat(SumSeq(s), Len(s))

\* the hdi_prob az.hdi uses when the caller passes none
HdiProbDefault == <<94, 100>>

MeanChangePctOfAfter(mu_before, mu_after) ==
    IF mu_after.num # 0
    THEN Rat(RatSub(mu_after, mu_before).num * mu_after.den * 100,
             RatSub(mu_after, mu_before).den * RatAbs(mu_after).num)
    ELSE Infinity

\* mean_change / abs(mu_before) * 100, np.inf when mu_before is 0
MeanChangePct(mu_before, mu_after) ==
    IF mu_before.num # 0
    THEN Rat(RatSub(mu_after, mu_before).num * mu_before.den * 100,
             RatSub(mu_after, mu_before).den * RatAbs(mu_before).num)
    ELSE Infinity

Direction(mean_change_pct, mean_change) ==
    IF RatLess(RatAbs(mean_change_pct), Rat(5, 1)) THEN "minimal"
    ELSE IF mean_change.num > 0 THEN "increase"
    ELSE "decrease"

\* np.std(values) squared and scaled by len(values)^2
VarianceTimesN2(values) ==
    Len(values) * SumSeq([i \in 1..Len(values) |-> values[i] * values[i]])
        - SumSeq(values) * SumSeq(values)

MagnitudeInStdSquaredUnguarded(mean_change, values) ==
    Rat(mean_change.num * mean_change.num * Len(values) * Len(values),
        mean_change.den * mean_change.den * VarianceTimesN2(values))

\* magnitude_in_std squared: abs(mean_change) / std_data if std_data > 0 else 0
MagnitudeInStdSquared(mean_change, values) ==
    IF VarianceTimesN2(values) > 0
    THEN Rat(mean_change.num * mean_change.num * Len(values) * Len(values),
             mean_change.den * mean_change.den * VarianceTimesN2(values))
    ELSE Rat(0, 1)

\* the thresholds 0.2, 0.5, 1.0 and 2.0 on magnitude_in_std, squared
Magnitude(magnitude_in_std_squared) ==
    IF RatLess(magnitude_in_std_squared, Rat(1, 25)) THEN "negligible"
    ELSE IF RatLess(magnitude_in_std_squared, Rat(1, 4)) THEN "small"
    ELSE IF RatLess(magnitude_in_std_squared, Rat(1, 1)) THEN "moderate"
    ELSE IF RatLess(magnitude_in_std_squared, Rat(4, 1)) THEN "large"
    ELSE "very large"

\* sigma_change / sigma_before * 100, np.inf when sigma_before is 0
SigmaChangePct(sigma_before, sigma_after) ==
    IF sigma_before.num # 0
    THEN Rat(RatSub(sigma_after, sigma_before).num * sigma_before.den * 100,
             RatSub(sigma_after, sigma_before).den * sigma_before.num)
    ELSE Infinity

\* the fields quantify_impact always reports
MeanImpact(tr, d) ==
    LET mu_1_samples == Flatten(tr.posterior.mu_1)
        mu_2_samples == Flatten(tr.posterior.mu_2)
        mu_before == Mean(mu_1_samples)
        mu_after == Mean(mu_2_samples)
        mean_change == RatSub(mu_after, mu_before)
        mean_change_pct == MeanChangePct(mu_before, mu_after)
        magnitude_in_std == MagnitudeInStdSquared(mean_change, d.values)
    IN  [mu_before |-> mu_before,
         mu_after |-> mu_after,
         mu_before_ci |-> Hdi(mu_1_samples, HdiProbDefault),
         mu_after_ci |-> Hdi(mu_2_samples, HdiProbDefault),
         mean_change |-> mean_change,
         mean_change_pct |-> mean_change_pct,
         direction |-> Direction(mean_change_pct, mean_change),
         magnitude |-> Magnitude(magnitude_in_std),
         magnitude_in_std |-> magnitude_in_std]

\* the fields added when include_volatility is set
VolatilityImpact(tr) ==
    LET sigma_1_samples == Flatten(tr.posterior.sigma_1)
        sigma_2_samples == Flatten(tr.posterior.sigma_2)
        sigma_before == Mean(sigma_1_samples)
        sigma_after == Mean(sigma_2_samples)
        sigma_change == RatSub(sigma_after, sigma_before)
    IN  [sigma_before |-> sigma_before,
         sigma_after |-> sigma_after,
         sigma_before_ci |-> Hdi(sigma_1_samples, HdiProbDefault),
         sigma_after_ci |-> Hdi(sigma_2_samples, HdiProbDefault),
         sigma_change |-> sigma_change,
         sigma_change_pct |-> SigmaChangePct(sigma_before, sigma_after),
         volatility_direction |-> IF sigma_change.num > 0 THEN "increase" ELSE "decrease"]

ImpactResult(tr, d, include_volatility) ==
    LET args == <<include_volatility, tr.id>>
    IN  IF "posterior" \notin DOMAIN tr
        THEN Call("quantify_impact", args, "ValueError", None)
        ELSE IF {"mu_1", "mu_2"} \ DOMAIN tr.posterior # {}
        THEN Call("quantify_impact", args, "KeyError", None)
        ELSE IF ~include_volatility
        THEN Call("quantify_impact", args, "ok", MeanImpact(tr, d))
        ELSE IF {"sigma_1", "sigma_2"} \ DOMAIN tr.posterior # {}
        THEN Call("quantify_impact", args, "KeyError", None)
        ELSE Call("quantify_impact", args, "ok", MeanImpact(tr, d) @@ VolatilityImpact(tr))

QuantifyImpact(tr, include_volatility) ==
    /\ data # None
    /\ trace # None
    /\ tr \in {trace} \cup MalformedTraces
    /\ last' = ImpactResult(tr, data, include_volatility)
    /\ UNCHANGED <<data, n_observations, model, trace, fits, events, changepoints, batch>>

(***************************************************************************)
(* A series and a completed trace handed to quantify_impact                *)
(***************************************************************************)
\* the price series: constant, standard deviation 1, standard deviation 10
ImpactSeries == {<<0, 0>>, <<0, 2>>, <<0, 20>>}

\* k draws of hi followed by n - k draws of lo
TwoLevel(lo, hi, k, n) == [i \in 1..n |-> IF i <= k THEN hi ELSE lo]

\* draws of one chain of a sampled real variable: 17 draws are the fewest for
\* which the 94% interval leaves a draw out
SkewedDraws == {TwoLevel(0, 17, 1, 17), TwoLevel(0, 17, 16, 17)}

Mu1Draws == {<<0>>, <<1, 0 - 1>>, <<100>>, <<101, 99>>, <<0 - 100>>} \cup SkewedDraws

Mu2Levels == {0 - 105, 0 - 104, 0 - 100, 0 - 96, 0 - 95, 0, 1, 2, 5, 10, 20,
              95, 96, 100, 104, 105}

Mu2Draws == {<<v>> : v \in Mu2Levels} \cup {<<1, 0 - 1>>, <<101, 99>>} \cup SkewedDraws

SigmaDraws == {<<1>>, <<3, 1>>}

InitImpact ==
    \E values \in ImpactSeries, mu_1 \in Mu1Draws, mu_2 \in Mu2Draws,
       sigma_1 \in SigmaDraws, sigma_2 \in SigmaDraws :
        /\ data = [kind |-> "Series", len |-> Len(values), nan |-> FALSE,
                   datetime_index |-> TRUE, values |-> values]
        /\ n_observations = Len(values)
        /\ model = None
        /\ fits = 1
        /\ trace = [id |-> 1,
                    posterior |-> [mu_1 |-> <<mu_1>>, mu_2 |-> <<mu_2>>,
                                   sigma_1 |-> <<sigma_1>>, sigma_2 |-> <<sigma_2>>]]
        /\ last = Call("none", <<>>, "ok", None)
        /\ events = None
        /\ changepoints = <<>>
        /\ batch = None

NextImpact ==
    \/ \E v \in BOOLEAN : QuantifyImpact(trace, v)
    \/ \E tr \in MalformedTraces : QuantifyImpact(tr, TRUE)

SpecImpact == InitImpact /\ [][NextImpact]_vars

(***************************************************************************)
(* ChangePointAnalyzer.associate_with_events                               *)
(* Dates are whole days counted from an epoch.                             *)
(***************************************************************************)
DefaultWindowDays == 30
DefaultDateColumn == "date"

NearbyOutside(table, date_column, cp_date, window_days) ==
    SelectSeq(table.rows, LAMBDA r : ~(/\ r[date_column] >= cp_date - window_days
                                       /\ r[date_column] <= cp_date + window_days))

\* events[mask]: the rows dated within [cp_date - window_days, cp_date + window_days],
\* in the order of the table
Nearby(table, date_column, cp_date, window_days) ==
    SelectSeq(table.rows, LAMBDA r : /\ r[date_column] >= cp_date - window_days
                                     /\ r[date_column] <= cp_date + window_days)

WithDistancesReversed(r, date_column, cp_date) ==
    r @@ [days_from_changepoint |-> cp_date - r[date_column],
          abs_days_from_changepoint |->
              IF r[date_column] - cp_date < 0 THEN cp_date - r[date_column]
              ELSE r[date_column] - cp_date]

\* a nearby row with its columns days_from_changepoint and abs_days_from_changepoint
WithDistances(r, date_column, cp_date) ==
    r @@ [days_from_changepoint |-> r[date_column] - cp_date,
          abs_days_from_changepoint |->
              IF r[date_column] - cp_date < 0 THEN cp_date - r[date_column]
              ELSE r[date_column] - cp_date]

RECURSIVE FarthestFirst(_)
FarthestFirst(rows) ==
    IF rows = {} THEN {<<>>}
    ELSE UNION {{<<r>> \o t : t \in FarthestFirst(rows \ {r})} :
                   r \in {x \in rows : \A y \in rows :
                             x.abs_days_from_changepoint >= y.abs_days_from_changepoint}}

\* sort_values("abs_days_from_changepoint"): the rows in ascending order of the
\* column; the sort is not stable, so rows at the same distance come in any order
RECURSIVE SortValues(_)
SortValues(rows) ==
    IF rows = {} THEN {<<>>}
    ELSE UNION {{<<r>> \o t : t \in SortValues(rows \ {r})} :
                   r \in {x \in rows : \A y \in rows :
                             x.abs_days_from_changepoint <= y.abs_days_from_changepoint}}

\* the association records one change point can get
AssociationsOf(cp, table, date_column, window_days) ==
    LET nearby == Nearby(table, date_column, cp.date, window_days)
        nearby_events == [i \in 1..Len(nearby) |-> WithDistances(nearby[i], date_column, cp.date)]
    IN  IF Len(nearby) > 0
        THEN {[changepoint_date |-> cp.date,
               changepoint_index |-> cp.index,
               associated_events |-> associated_events,
               closest_event |-> associated_events[1],
               days_from_closest |-> associated_events[1].days_from_changepoint,
               num_events_in_window |-> Len(associated_events)] :
                  associated_events \in SortValues({nearby_events[i] : i \in 1..Len(nearby)})}
        ELSE {[changepoint_date |-> cp.date,
               changepoint_index |-> cp.index,
               associated_events |-> <<>>,
               closest_event |-> None,
               days_from_closest |-> None,
               num_events_in_window |-> 0]}

AssociateOutcomeDateFirst(cps, table, date_column) ==
    IF \E i \in 1..Len(cps) : "date" \notin DOMAIN cps[i] THEN "KeyError"
    ELSE IF date_column \notin table.columns THEN "ValueError"
    ELSE "ok"

\* the column check comes before the loop over the change points
AssociateOutcome(cps, table, date_column) ==
    IF date_column \notin table.columns THEN "ValueError"
    ELSE IF \E i \in 1..Len(cps) : "date" \notin DOMAIN cps[i] THEN "KeyError"
    ELSE "ok"

\* the lists of associations the loop over the first k change points can build
RECURSIVE Associations(_, _, _, _, _)
Associations(cps, k, table, date_column, window_days) ==
    IF k = 0 THEN {<<>>}
    ELSE {Append(t, a) : t \in Associations(cps, k - 1, table, date_column, window_days),
                         a \in AssociationsOf(cps[k], table, date_column, window_days)}

\* events[date_column] = pd.to_datetime(events[date_column]) when the column is
\* not of a datetime dtype
ToDatetime(table, date_column) ==
    IF table.dtype = "datetime64" THEN table ELSE [table EXCEPT !.dtype = "datetime64"]

AssociateWithEventsInPlace(window_days, date_column) ==
    /\ events # None
    /\ IF AssociateOutcome(changepoints, events, date_column) # "ok"
       THEN /\ last' = Call("associate_with_events", <<window_days, date_column>>,
                            AssociateOutcome(changepoints, events, date_column), None)
            /\ events' = events
       ELSE /\ \E associations \in Associations(changepoints, Len(changepoints),
                                                 ToDatetime(events, date_column),
                                                 date_column, window_days) :
                  last' = Call("associate_with_events", <<window_days, date_column>>,
                               "ok", associations)
            /\ events' = ToDatetime(events, date_column)
    /\ UNCHANGED <<data, n_observations, model, trace, fits, changepoints, batch>>

\* the conversion is made on a copy (events = events.copy()) and the distance
\* columns are added to a copy of the selected rows, so the caller's table stays
\* as it was
AssociateWithEvents(window_days, date_column) ==
    /\ events # None
    /\ IF AssociateOutcome(changepoints, events, date_column) # "ok"
       THEN last' = Call("associate_with_events", <<window_days, date_column>>,
                         AssociateOutcome(changepoints, events, date_column), None)
       ELSE \E associations \in Associations(changepoints, Len(changepoints),
                                             ToDatetime(events, date_column),
                                             date_column, window_days) :
               last' = Call("associate_with_events", <<window_days, date_column>>,
                            "ok", associations)
    /\ events' = events
    /\ UNCHANGED <<data, n_observations, model, trace, fits, changepoints, batch>>

(***************************************************************************)
(* Change-point records and an events table handed to associate_with_events *)
(***************************************************************************)
MaxEvents == 3

\* event dates at -30, -5, -3, +3 and +40 days from day 100
EventDays == {70, 95, 97, 103, 140}

DateColumns == {DefaultDateColumn, "event_date"}

WindowDays == {3, DefaultWindowDays}

\* a row of the events table; events are named by their position in the table
Row(date_column, name, day) ==
    [f \in {"event_name", date_column} |-> IF f = date_column THEN day ELSE name]

\* the dtype is that of the date column: strings as read from a file (object) or
\* timestamps
EventTables ==
    UNION {{[columns |-> {"event_name", dc}, dtype |-> dtype,
             rows |-> [i \in 1..k |-> Row(dc, i, days[i])]] : days \in SeqsOfLen(EventDays, k)} :
               dc \in DateColumns, k \in 0..MaxEvents, dtype \in {"object", "datetime64"}}

\* change-point records as identify_changepoints returns them over a series with
\* a datetime index (dated) and over one without (no date field)
ChangepointLists ==
    {<<>>,
     <<[index |-> 10, date |-> 100]>>,
     <<[index |-> 10, date |-> 100], [index |-> 12, date |-> 138]>>,
     <<[index |-> 10]>>,
     <<[index |-> 10, date |-> 100], [index |-> 12]>>}

InitEvents ==
    /\ data = None
    /\ n_observations = 0
    /\ model = None
    /\ trace = None
    /\ fits = 0
    /\ last = Call("none", <<>>, "ok", None)
    /\ events \in EventTables
    /\ changepoints \in ChangepointLists
    /\ batch = None

NextEvents ==
    \E w \in WindowDays, dc \in DateColumns : AssociateWithEvents(w, dc)

SpecEvents == InitEvents /\ [][NextEvents]_vars

(***************************************************************************)
(* ChangePointAnalyzer.generate_impact_statement                           *)
(* The statement is kept as its list of lines (the text joins them with    *)
(* newlines); a line is its text and the number formatted into it, if any. *)
(***************************************************************************)
\* day 0 of the calendar: dates are days counted from 1 January of this year
EpochYear == 2020

\* the days of month m of year y in the Gregorian calendar of pandas timestamps
DaysInMonth(y, m) ==
    IF m = 2 THEN (IF (y % 4 = 0 /\ y % 100 # 0) \/ y % 400 = 0 THEN 29 ELSE 28)
    ELSE IF m \in {4, 6, 9, 11} THEN 30
    ELSE 31

\* year, month and day of the month of the date that lies rest days after the
\* first day of month m of year y
RECURSIVE CivilDate(_, _, _)
CivilDate(y, m, rest) ==
    IF rest < DaysInMonth(y, m) THEN <<y, m, rest + 1>>
    ELSE CivilDate(IF m = 12 THEN y + 1 ELSE y, IF m = 12 THEN 1 ELSE m + 1,
                   rest - DaysInMonth(y, m))

\* %m and %d: two digits
Pad2(n) == IF n < 10 THEN "0" \o ToString(n) ELSE ToString(n)

StrfTimeDayFirst(day) ==
    Pad2(CivilDate(EpochYear, 1, day)[3]) \o "/" \o Pad2(CivilDate(EpochYear, 1, day)[2])
        \o "/" \o ToString(CivilDate(EpochYear, 1, day)[1])

\* date.strftime("%Y-%m-%d")
StrfTime(day) ==
    ToString(CivilDate(EpochYear, 1, day)[1]) \o "-" \o Pad2(CivilDate(EpochYear, 1, day)[2])
        \o "-" \o Pad2(CivilDate(EpochYear, 1, day)[3])

\* str.upper() on the labels quantify_impact produces
Upper(label) ==
    CASE label = "increase" -> "INCREASE"
      [] label = "decrease" -> "DECREASE"
      [] label = "minimal" -> "MINIMAL"
      [] label = "negligible" -> "NEGLIGIBLE"
      [] label = "small" -> "SMALL"
      [] label = "moderate" -> "MODERATE"
      [] label = "large" -> "LARGE"
      [] label = "very large" -> "VERY LARGE"
      [] OTHER -> label

Line(text, value) == [text |-> text, value |-> value]

Rule == "======================================================================"

\* where the change point is: by date when the record has one, else by index
LocationLines(changepoint) ==
    IF "date" \in DOMAIN changepoint
    THEN <<Line("Change Point Detected: " \o StrfTime(changepoint.date), None),
           Line("   Index: ", changepoint.index)>>
         \o (IF "ci_dates" \in DOMAIN changepoint
             THEN <<Line("   "
                         \o ToString((changepoint.ci_probability[1] * 100)
                                         \div changepoint.ci_probability[2])
                         \o "% Credible Interval: [" \o StrfTime(changepoint.ci_dates[1])
                         \o ", " \o StrfTime(changepoint.ci_dates[2]) \o "]", None)>>
             ELSE <<>>)
    ELSE <<Line("Change Point Detected at Index: ", changepoint.index)>>

MeanLines(impact) ==
    <<Line("Impact on Mean:", None),
      Line("   Before: ", impact.mu_before),
      Line("   After:  ", impact.mu_after),
      Line("   Change: ", <<impact.mean_change, impact.mean_change_pct>>),
      Line("   Direction: " \o Upper(impact.direction), None),
      Line("   Magnitude: " \o Upper(impact.magnitude), None)>>

VolatilityLines(impact) ==
    IF "sigma_before" \in DOMAIN impact
    THEN <<Line("Impact on Volatility:", None),
           Line("   Before: ", impact.sigma_before),
           Line("   After:  ", impact.sigma_after),
           Line("   Change: ", <<impact.sigma_change, impact.sigma_change_pct>>),
           Line("   Volatility: " \o Upper(impact.volatility_direction), None)>>
    ELSE <<>>

\* the associated-events section: the closest event's name, event['date'] and
\* distance, or the note that no event was found
EventLines(association) ==
    LET event == association.closest_event
    IN  IF association = None THEN <<>>
        ELSE IF association.closest_event = None
        THEN <<Line("Associated Events:", None),
               Line("   No events found within +/-30 day window", None)>>
        ELSE <<Line("Associated Events:", None),
               Line("   Event: " \o ToString(event.event_name), None),
               Line("   Event Date: " \o StrfTime(event.date), None),
               Line("   Distance: " \o ToString(association.days_from_closest) \o " days", None)>>
             \o (IF "event_type" \in DOMAIN event
                 THEN <<Line("   Type: " \o event.event_type, None)>> ELSE <<>>)
             \o (IF "expected_impact" \in DOMAIN event
                 THEN <<Line("   Expected Impact: " \o event.expected_impact, None)>> ELSE <<>>)
             \o (IF association.num_events_in_window > 1
                 THEN <<Line("   (" \o ToString(association.num_events_in_window)
                             \o " events within window)", None)>>
                 ELSE <<>>)

InterpretationLines(impact) ==
    <<Line("Interpretation:", None),
      Line(IF impact.direction = "increase"
           THEN (IF impact.magnitude \in {"large", "very large"}
                 THEN "   Strong positive shift detected in the time series."
                 ELSE "   Moderate positive shift detected in the time series.")
           ELSE IF impact.direction = "decrease"
           THEN (IF impact.magnitude \in {"large", "very large"}
                 THEN "   Strong negative shift detected in the time series."
                 ELSE "   Moderate negative shift detected in the time series.")
           ELSE "   Minimal change in central tendency detected.", None)>>
    \o (IF "volatility_direction" \in DOMAIN impact
        THEN <<Line(IF impact.volatility_direction = "increase"
                    THEN "   Volatility increased, indicating higher market uncertainty."
                    ELSE "   Volatility decreased, indicating more stable conditions.", None)>>
        ELSE <<>>)

AbsDays(days) == IF days < 0 THEN 0 - days ELSE days

CausalityLinesWithin30(association) ==
    IF association = None THEN <<>>
    ELSE IF association.closest_event = None THEN <<>>
    ELSE IF AbsDays(association.days_from_closest) <= 30
    THEN <<Line("   Timing closely aligns with major event (within "
                \o ToString(AbsDays(association.days_from_closest)) \o " days).", None)>>
    ELSE <<>>

\* the event causality note
CausalityLines(association) ==
    IF association = None THEN <<>>
    ELSE IF association.closest_event = None THEN <<>>
    ELSE IF AbsDays(association.days_from_closest) <= 7
    THEN <<Line("   Timing closely aligns with major event (within "
                \o ToString(AbsDays(association.days_from_closest)) \o " days).", None)>>
    ELSE IF AbsDays(association.days_from_closest) <= 30
    THEN <<Line("   Potential association with event ("
                \o ToString(AbsDays(association.days_from_closest)) \o " days difference).", None)>>
    ELSE <<>>

StatementResult(changepoint, impact, association) ==
    LET args == <<changepoint, impact, association>>
    IN  IF "index" \notin DOMAIN changepoint
        THEN Call("generate_impact_statement", args, "KeyError", None)
        ELSE IF association # None /\ association.closest_event # None
                /\ "date" \notin DOMAIN association.closest_event
        THEN Call("generate_impact_statement", args, "KeyError", None)
        ELSE Call("generate_impact_statement", args, "ok",
                  <<Line(Rule, None), Line("CHANGE POINT ANALYSIS SUMMARY", None), Line(Rule, None)>>
                  \o LocationLines(changepoint)
                  \o MeanLines(impact)
                  \o VolatilityLines(impact)
                  \o EventLines(association)
                  \o InterpretationLines(impact)
                  \o CausalityLines(association)
                  \o <<Line(Rule, None)>>)

GenerateImpactStatement(changepoint, impact, association) ==
    /\ last' = StatementResult(changepoint, impact, association)
    /\ UNCHANGED <<data, n_observations, model, trace, fits, events, changepoints, batch>>

(***************************************************************************)
(* Change-point records, impact records and associations handed to         *)
(* generate_impact_statement                                               *)
(***************************************************************************)
\* impact records as quantify_impact returns them: a fall of 10, no change and a
\* rise of 5 from a mean of 100, over a series of standard deviation 10
ImpactRecords ==
    {ImpactResult([id |-> 1,
                   posterior |-> [mu_1 |-> <<<<100>>>>, mu_2 |-> <<<<m>>>>,
                                  sigma_1 |-> <<<<1>>>>, sigma_2 |-> <<<<3, 1>>>>]],
                  [values |-> <<0, 20>>], m = 100).value : m \in {90, 100, 105}}

\* the associations associate_with_events returns for a change point, for each
\* date column it accepts and each window size (one of them beyond 30 days),
\* and no association
AssociationsFor(changepoint, table) ==
    {None} \cup
    (IF "date" \in DOMAIN changepoint
     THEN UNION {AssociationsOf(changepoint, table, dc, w) :
                    dc \in DateColumns \cap table.columns, w \in WindowDays \cup {40}}
     ELSE {})

\* change-point records as identify_changepoints returns them, dated and not
StatementChangepoints ==
    {[index |-> 10, date |-> d, ci_dates |-> <<d - 2, d + 1>>, ci_probability |-> c] :
        d \in {59, 100, 147, 366}, c \in Confidences}
    \cup {[index |-> 10, ci_probability |-> DefaultConfidence]}

InitStatement ==
    /\ data = None
    /\ n_observations = 0
    /\ model = None
    /\ trace = None
    /\ fits = 0
    /\ last = Call("none", <<>>, "ok", None)
    /\ events \in {t \in EventTables : Len(t.rows) <= 2}
    /\ \E cp \in StatementChangepoints : changepoints = <<cp>>
    /\ batch = None

NextStatement ==
    \E impact \in ImpactRecords, association \in AssociationsFor(changepoints[1], events) :
        GenerateImpactStatement(changepoints[1], impact, association)

SpecStatement == InitStatement /\ [][NextStatement]_vars

(***************************************************************************)
(* ChangePointAnalyzer.batch_analyze, one step for each call it makes.     *)
(* batch holds the call's arguments, its position, the calls made so far,  *)
(* the results it has collected and the names of those it has assigned;    *)
(* an exception of a step ends the call.                                   *)
(***************************************************************************)
\* the position after a step: the next one, or the end when the step raised
BatchAfter(r, next, field, value) ==
    IF r.outcome = "ok"
    THEN [batch EXCEPT !.pc = next, !.calls = Append(@, r.op), ![field] = value,
                       !.has = @ \cup {field}]
    ELSE [batch EXCEPT !.pc = "raised", !.calls = Append(@, r.op)]

\* Step 1: changepoints = self.identify_changepoints(trace, data)
BatchIdentify ==
    /\ batch # None
    /\ batch.pc = "identify"
    /\ LET r == IdentifyResult(trace, data, DefaultConfidence, DefaultMethod)
       IN  /\ batch' = BatchAfter(r, "quantify", "changepoints", r.value)
           /\ last' = IF r.outcome = "ok" THEN r ELSE Call("batch_analyze", batch.args, r.outcome, None)
    /\ UNCHANGED <<data, n_observations, model, trace, fits, events, changepoints>>

\* Step 2: impact = self.quantify_impact(trace, data); associations = None, and
\* the events branch is taken only when events is not None
BatchQuantify ==
    /\ batch # None
    /\ batch.pc = "quantify"
    /\ LET r == ImpactResult(trace, data, TRUE)
       IN  /\ batch' = BatchAfter(r, IF events # None THEN "associate" ELSE "statement",
                                  "impact", r.value)
           /\ last' = IF r.outcome = "ok" THEN r ELSE Call("batch_analyze", batch.args, r.outcome, None)
    /\ UNCHANGED <<data, n_observations, model, trace, fits, events, changepoints>>

\* Step 3: associations = self.associate_with_events(changepoints, events, window_days)
BatchAssociate ==
    /\ batch # None
    /\ batch.pc = "associate"
    /\ \E r \in IF AssociateOutcome(batch.changepoints, events, DefaultDateColumn) # "ok"
                THEN {Call("associate_with_events", <<batch.args[1], DefaultDateColumn>>,
                           AssociateOutcome(batch.changepoints, events, DefaultDateColumn), None)}
                ELSE {Call("associate_with_events", <<batch.args[1], DefaultDateColumn>>, "ok", a) :
                         a \in Associations(batch.changepoints, Len(batch.changepoints),
                                            ToDatetime(events, DefaultDateColumn),
                                            DefaultDateColumn, batch.args[1])} :
          /\ batch' = BatchAfter(r, "statement", "associations", r.value)
          /\ last' = IF r.outcome = "ok" THEN r ELSE Call("batch_analyze", batch.args, r.outcome, None)
    /\ UNCHANGED <<data, n_observations, model, trace, fits, events, changepoints>>

BatchStatementWithoutAssociation ==
    /\ batch # None
    /\ batch.pc = "statement"
    /\ LET r == StatementResult(batch.changepoints[1], batch.impact, None)
       IN  /\ batch' = BatchAfter(r, "returned", "statement", r.value)
           /\ last' = IF r.outcome = "ok"
                      THEN Call("batch_analyze", batch.args, "ok",
                                [changepoints |-> batch.changepoints,
                                 impact |-> batch.impact,
                                 associations |-> batch.associations,
                                 statement |-> r.value])
                      ELSE Call("batch_analyze", batch.args, r.outcome, None)
    /\ UNCHANGED <<data, n_observations, model, trace, fits, events, changepoints>>

\* Step 4: the statement for changepoints[0] and associations[0] (None when
\* associations is None or empty), then the return of the four results
BatchStatement ==
    /\ batch # None
    /\ batch.pc = "statement"
    /\ LET association_for_statement ==
               IF "associations" \notin batch.has THEN None
               ELSE IF batch.associations = <<>> THEN None
               ELSE batch.associations[1]
           r == StatementResult(batch.changepoints[1], batch.impact, association_for_statement)
       IN  /\ batch' = BatchAfter(r, "returned", "statement", r.value)
           /\ last' = IF r.outcome = "ok"
                      THEN Call("batch_analyze", batch.args, "ok",
                                [changepoints |-> batch.changepoints,
                                 impact |-> batch.impact,
                                 associations |-> batch.associations,
                                 statement |-> r.value])
                      ELSE Call("batch_analyze", batch.args, r.outcome, None)
    /\ UNCHANGED <<data, n_observations, model, trace, fits, events, changepoints>>

(***************************************************************************)
(* A batch_analyze call over a series of four daily prices (with and       *)
(* without a datetime index), a completed trace and an optional events     *)
(* table; the dates of the series are days 0 to 3                          *)
(***************************************************************************)
InitBatch ==
    \E dated \in BOOLEAN, tau \in {<<1>>, <<2, 1>>}, mu_2 \in {<<90>>, <<100>>, <<105>>},
       days \in {<<>>, <<2>>, <<10>>, <<40>>, <<40, 2>>, <<1, 2>>},
       dc \in DateColumns, dtype \in {"object", "datetime64"}, window_days \in WindowDays,
       supplied \in BOOLEAN :
        /\ data = [kind |-> "Series", len |-> 4, nan |-> FALSE,
                   datetime_index |-> dated, values |-> <<0, 0, 20, 20>>]
        /\ n_observations = 4
        /\ model = None
        /\ fits = 1
        /\ trace = [id |-> 1,
                    posterior |-> [tau |-> <<tau>>, mu_1 |-> <<<<100>>>>, mu_2 |-> <<mu_2>>,
                                   sigma_1 |-> <<<<1>>>>, sigma_2 |-> <<<<3, 1>>>>]]
        /\ last = Call("none", <<>>, "ok", None)
        /\ events = IF supplied
                    THEN [columns |-> {"event_name", dc}, dtype |-> dtype,
                          rows |-> [i \in 1..Len(days) |-> Row(dc, i, days[i])]]
                    ELSE None
        /\ changepoints = <<>>
        /\ batch = [args |-> <<window_days, supplied>>, pc |-> "identify", calls |-> <<>>,
                    changepoints |-> None, impact |-> None, associations |-> None,
                    statement |-> None, has |-> {}]

NextBatch ==
    \/ BatchIdentify
    \/ BatchQuantify
    \/ BatchAssociate
    \/ BatchStatement

SpecBatch == InitBatch /\ [][NextBatch]_vars

(***************************************************************************)
(* EventService.get_events over the table EventDataLoader.load_events      *)
(* loaded: events holds that table, which the service and its loader       *)
(* share, sorted by date and indexed from 0                                *)
(***************************************************************************)
\* EventDataLoader.filter_by_type: the rows of the whole loaded table that have
\* the type, with their positions
FilterByType(table, event_type) ==
    IF event_type \notin {"geopolitical", "opec_decision", "economic_shock", "sanction"}
    THEN [outcome |-> "ValueError", ids |-> <<>>]
    ELSE [outcome |-> "ok",
          ids |-> SelectSeq([i \in 1..Len(table.rows) |-> i],
                            LAMBDA i : table.rows[i].event_type = event_type)]

\* an optional argument is None or a record holding its value; the dates are
\* days, the event type is a string, and an empty string counts as not given
GetEventsResult(table, start_date, end_date, event_type) ==
    LET args == <<start_date, end_date, event_type>>
        all == [i \in 1..Len(table.rows) |-> i]
        from == IF start_date # None
                THEN SelectSeq(all, LAMBDA i : table.rows[i].date >= start_date.day)
                ELSE all
        until == IF end_date # None
                 THEN SelectSeq(from, LAMBDA i : table.rows[i].date <= end_date.day)
                 ELSE from
        typed == IF event_type # None /\ event_type # [name |-> ""]
                 THEN FilterByType(table, event_type.name)
                 ELSE [outcome |-> "ok", ids |-> until]
    IN  IF typed.outcome # "ok"
        THEN Call("get_events", args, typed.outcome, None)
        ELSE Call("get_events", args, "ok",
                  [k \in 1..Len(typed.ids) |->
                      [id |-> typed.ids[k] - 1,
                       date |-> StrfTime(table.rows[typed.ids[k]].date),
                       event_name |-> table.rows[typed.ids[k]].event_name,
                       event_type |-> table.rows[typed.ids[k]].event_type]])

GetEvents(start_date, end_date, event_type) ==
    /\ events # None
    /\ last' = GetEventsResult(events, start_date, end_date, event_type)
    /\ UNCHANGED <<data, n_observations, model, trace, fits, events, changepoints, batch>>

\* loaded tables of up to MaxEvents events on days 1, 5 and 9, of two types,
\* in date order as load_events leaves them
InitService ==
    /\ data = None
    /\ n_observations = 0
    /\ model = None
    /\ trace = None
    /\ fits = 0
    /\ last = Call("none", <<>>, "ok", None)
    /\ \E k \in 0..MaxEvents :
          \E days \in SeqsOfLen({1, 5, 9}, k),
             types \in SeqsOfLen({"geopolitical", "opec_decision"}, k) :
              /\ \A i \in 1..(k - 1) : days[i] <= days[i + 1]
              /\ events = [columns |-> {"date", "event_name", "event_type"},
                           dtype |-> "datetime64",
                           rows |-> [i \in 1..k |->
                                        [date |-> days[i], event_name |-> i,
                                         event_type |-> types[i]]]]
    /\ changepoints = <<>>
    /\ batch = None

NextService ==
    \E start_date \in {None, [day |-> 5]}, end_date \in {None, [day |-> 5]},
       event_type \in {None, [name |-> ""], [name |-> "opec_decision"],
                       [name |-> "geopolitical"], [name |-> "weather"]} :
        GetEvents(start_date, end_date, event_type)

SpecService == InitService /\ [][NextService]_vars

(***************************************************************************)
(* ModelDiagnostics.check_convergence                                      *)
(* R-hat values are in hundredths, as az.summary reports them.             *)
(***************************************************************************)
DefaultRhatThreshold == 101
DefaultEssBulkThreshold == 100
DefaultEssTailThreshold == 100

\* a cell of the summary table: a number, or NaN where the diagnostic is undefined
Float(x) == [nan |-> FALSE, v |-> x]

NaN == [nan |-> TRUE, v |-> 0]

\* comparisons of a cell with a threshold; every comparison with NaN is false
GreaterThan(a, t) == ~a.nan /\ a.v > t

LessThan(a, t) == ~a.nan /\ a.v < t

\* the message appended to issues for one row of a filtered summary
Issue(diagnostic, var, cell, threshold) ==
    [diagnostic |-> diagnostic, var |-> var, value |-> cell.v, threshold |-> threshold]

\* check_convergence: the value returned and the issues listed in the warning
ConvergenceResult(tr, var_names, rhat_threshold, ess_bulk_threshold, ess_tail_threshold) ==
    LET args == <<var_names, rhat_threshold, ess_bulk_threshold, ess_tail_threshold>>
        names == IF var_names = None THEN tr.var_names ELSE var_names.names
    IN  IF \E i \in 1..Len(names) : names[i] \notin DOMAIN tr.summary
        THEN Call("check_convergence", args, "KeyError", None)
        ELSE LET summary == tr.summary
                 bad_rhat == SelectSeq(names, LAMBDA var :
                                 GreaterThan(summary[var].r_hat, rhat_threshold))
                 bad_ess_bulk == SelectSeq(names, LAMBDA var :
                                     LessThan(summary[var].ess_bulk, ess_bulk_threshold))
                 bad_ess_tail == SelectSeq(names, LAMBDA var :
                                     LessThan(summary[var].ess_tail, ess_tail_threshold))
                 issues ==
                     [i \in 1..Len(bad_rhat) |->
                         Issue("R-hat", bad_rhat[i], summary[bad_rhat[i]].r_hat, rhat_threshold)]
                     \o [i \in 1..Len(bad_ess_bulk) |->
                         Issue("ESS bulk", bad_ess_bulk[i], summary[bad_ess_bulk[i]].ess_bulk,
                               ess_bulk_threshold)]
                     \o [i \in 1..Len(bad_ess_tail) |->
                         Issue("ESS tail", bad_ess_tail[i], summary[bad_ess_tail[i]].ess_tail,
                               ess_tail_threshold)]
                 converged == bad_rhat = <<>> /\ bad_ess_bulk = <<>> /\ bad_ess_tail = <<>>
             IN  Call("check_convergence", args, "ok",
                      [returned |-> converged,
                       warned |-> IF converged THEN <<>> ELSE issues])

\* az.summary(trace, var_names): the rows of the table for the names asked, or
\* KeyError when a name is no variable of the posterior
AzSummary(tr, names) ==
    IF \E i \in 1..Len(names) : names[i] \notin DOMAIN tr.summary
    THEN [outcome |-> "KeyError", table |-> None]
    ELSE [outcome |-> "ok",
          table |-> [index |-> names,
                     rows |-> [v \in {names[i] : i \in 1..Len(names)} |-> tr.summary[v]]]]

SummaryStatsResult(tr, var_names) ==
    LET names == IF var_names = None THEN tr.var_names ELSE var_names.names
        summary == AzSummary(tr, names)
    IN  Call("summary_stats", <<var_names>>, summary.outcome, summary.table)

GetEffectiveNResult(tr, var_names) ==
    LET names == IF var_names = None THEN tr.var_names ELSE var_names.names
        summary == AzSummary(tr, names)
    IN  IF summary.outcome # "ok"
        THEN Call("get_effective_n", <<var_names>>, summary.outcome, None)
        ELSE Call("get_effective_n", <<var_names>>, "ok",
                  [index |-> names,
                   rows |-> [v \in DOMAIN summary.table.rows |->
                               [ess_bulk |-> summary.table.rows[v].ess_bulk,
                                ess_tail |-> summary.table.rows[v].ess_tail]]])

GetRhatResult(tr, var_names) ==
    LET names == IF var_names = None THEN tr.var_names ELSE var_names.names
        summary == AzSummary(tr, names)
    IN  IF summary.outcome # "ok"
        THEN Call("get_rhat", <<var_names>>, summary.outcome, None)
        ELSE Call("get_rhat", <<var_names>>, "ok",
                  [index |-> names,
                   rows |-> [v \in DOMAIN summary.table.rows |-> summary.table.rows[v].r_hat]])

GetHdiResultUnchecked(tr, var_name, hdi_prob) ==
    IF var_name \notin DOMAIN tr.posterior
    THEN Call("get_hdi", <<var_name, hdi_prob>>, "KeyError", None)
    ELSE Call("get_hdi", <<var_name, hdi_prob>>, "ok",
              [lower |-> Hdi(Flatten(tr.posterior[var_name]), hdi_prob)[1],
               upper |-> Hdi(Flatten(tr.posterior[var_name]), hdi_prob)[2],
               width |-> Hdi(Flatten(tr.posterior[var_name]), hdi_prob)[2]
                            - Hdi(Flatten(tr.posterior[var_name]), hdi_prob)[1],
               probability |-> hdi_prob])

\* get_hdi checks the name itself, against self._var_names
GetHdiResult(tr, var_name, hdi_prob) ==
    IF \A i \in 1..Len(tr.var_names) : tr.var_names[i] # var_name
    THEN Call("get_hdi", <<var_name, hdi_prob>>, "ValueError", None)
    ELSE Call("get_hdi", <<var_name, hdi_prob>>, "ok",
              [lower |-> Hdi(Flatten(tr.posterior[var_name]), hdi_prob)[1],
               upper |-> Hdi(Flatten(tr.posterior[var_name]), hdi_prob)[2],
               width |-> Hdi(Flatten(tr.posterior[var_name]), hdi_prob)[2]
                            - Hdi(Flatten(tr.posterior[var_name]), hdi_prob)[1],
               probability |-> hdi_prob])

\* the queries of ModelDiagnostics other than check_convergence
DiagnosticsQuery(result) ==
    /\ trace # None
    /\ "summary" \in DOMAIN trace
    /\ last' = result
    /\ UNCHANGED <<data, n_observations, model, trace, fits, events, changepoints, batch>>

SummaryStats(var_names) == DiagnosticsQuery(SummaryStatsResult(trace, var_names))

GetEffectiveN(var_names) == DiagnosticsQuery(GetEffectiveNResult(trace, var_names))

GetRhat(var_names) == DiagnosticsQuery(GetRhatResult(trace, var_names))

GetHdi(var_name, hdi_prob) == DiagnosticsQuery(GetHdiResult(trace, var_name, hdi_prob))

CheckConvergence(var_names, rhat_threshold, ess_bulk_threshold, ess_tail_threshold) ==
    /\ trace # None
    /\ "summary" \in DOMAIN trace
    /\ last' = ConvergenceResult(trace, var_names, rhat_threshold, ess_bulk_threshold,
                                 ess_tail_threshold)
    /\ UNCHANGED <<data, n_observations, model, trace, fits, events, changepoints, batch>>

(***************************************************************************)
(* A completed trace held by a ModelDiagnostics instance                   *)
(***************************************************************************)
\* the R-hat az.summary reports: undefined for a single chain
RhatValues(chains) ==
    IF chains < 2 THEN {NaN} ELSE {Float(100), Float(101), Float(102)}

EssValues == {Float(99), Float(100)}

SummaryRows(chains) ==
    [r_hat : RhatValues(chains), ess_bulk : EssValues, ess_tail : EssValues]

\* the variables of the posterior, in the order of the summary table
DiagnosedVars == <<"tau", "mu_1">>

\* traces with the table az.summary computes from them
DiagnosedTraces ==
    UNION {{[id |-> 1, chains |-> c, var_names |-> DiagnosedVars, summary |-> t,
             posterior |-> [tau |-> [ch \in 1..c |-> <<2, 1>>],
                            mu_1 |-> [ch \in 1..c |-> <<0, 3>>]]] :
               t \in [{DiagnosedVars[i] : i \in 1..Len(DiagnosedVars)} -> SummaryRows(c)]} :
                  c \in ChainCounts}

VarNames ==
    {None, [names |-> <<"tau">>], [names |-> <<"mu_1", "tau">>], [names |-> <<"sigma_9">>],
     [names |-> <<"tau", "sigma_9">>]}

\* the names get_hdi is asked for: a variable of the trace and an absent one
HdiVarNames == {"tau", "mu_1", "sigma_9"}

Thresholds ==
    {<<DefaultRhatThreshold, DefaultEssBulkThreshold, DefaultEssTailThreshold>>,
     <<100, 99, 101>>}

InitDiagnostics ==
    /\ data = None
    /\ n_observations = 0
    /\ model = None
    /\ trace \in DiagnosedTraces
    /\ fits = 1
    /\ last = Call("none", <<>>, "ok", None)
    /\ events = None
    /\ changepoints = <<>>
    /\ batch = None

NextDiagnostics ==
    \/ \E var_names \in VarNames, t \in Thresholds :
          CheckConvergence(var_names, t[1], t[2], t[3])
    \/ \E var_names \in VarNames : SummaryStats(var_names)
    \/ \E var_names \in VarNames : GetEffectiveN(var_names)
    \/ \E var_names \in VarNames : GetRhat(var_names)
    \/ \E var_name \in HdiVarNames : GetHdi(var_name, DefaultConfidence)

SpecDiagnostics == InitDiagnostics /\ [][NextDiagnostics]_vars

(***************************************************************************)
(* One completed trace shared by a ModelDiagnostics instance and a         *)
(* ChangePointAnalyzer: their calls in any order                           *)
(***************************************************************************)
InitShared ==
    \E t \in {d \in DiagnosedTraces : d.summary["tau"] = d.summary["mu_1"]},
       dated \in BOOLEAN, days \in {<<>>, <<2>>, <<10, 2>>},
       dc \in DateColumns, dtype \in {"object", "datetime64"} :
        /\ data = [kind |-> "Series", len |-> 4, nan |-> FALSE,
                   datetime_index |-> dated, values |-> <<0, 0, 20, 20>>]
        /\ n_observations = 4
        /\ model = None
        /\ fits = 1
        /\ trace = [t EXCEPT !.posterior =
                        @ @@ [mu_2 |-> [ch \in 1..t.chains |-> <<5, 4>>],
                              sigma_1 |-> [ch \in 1..t.chains |-> <<1, 1>>],
                              sigma_2 |-> [ch \in 1..t.chains |-> <<3, 1>>]]]
        /\ last = Call("none", <<>>, "ok", None)
        /\ events = [columns |-> {"event_name", dc}, dtype |-> dtype,
                     rows |-> [i \in 1..Len(days) |-> Row(dc, i, days[i])]]
        /\ changepoints = IdentifyResult(trace, data, DefaultConfidence, DefaultMethod).value
        /\ batch = None

NextShared ==
    \/ NextDiagnostics
    \/ \E a \in IdentifyArguments : IdentifyChangepoints(trace, a[2], a[1])
    \/ \E include_volatility \in BOOLEAN : QuantifyImpact(trace, include_volatility)
    \/ \E w \in WindowDays, dc \in DateColumns : AssociateWithEvents(w, dc)
    \/ \E include_volatility \in BOOLEAN,
          association \in AssociationsFor(changepoints[1], ToDatetime(events, DefaultDateColumn)) :
          GenerateImpactStatement(changepoints[1],
                                  ImpactResult(trace, data, include_volatility).value,
                                  association)

SpecShared == InitShared /\ [][NextShared]_vars

(***************************************************************************)
(* Properties of build_model, fit and the getters (checked under Spec)     *)
(***************************************************************************)
Getters == {"get_trace", "get_summary", "get_changepoint_estimate", "get_parameter_estimates"}

\* C1: build_model raises ValueError and returns no model whenever 2L >= N, and
\* builds the model without error whenever L >= 1 and 2L < N.
C1_BuildModelValidation ==
    last.op = "build_model" =>
        LET L == last.args[2]
        IN  /\ 2 * L >= n_observations =>
                  (last.outcome = "ValueError" /\ last.value = None)
            /\ (L >= 1 /\ 2 * L < n_observations) =>
                  (last.outcome = "ok" /\ last.value # None /\ model = last.value)

C1_Witness ==
    /\ last.op = "build_model"
    /\ last.args[2] >= 1
    /\ 2 * last.args[2] = n_observations
    /\ last.outcome = "ValueError"

\* C2: fit on an instance whose build_model never succeeded raises RuntimeError,
\* returns nothing and leaves the instance without a trace.
C2_FitBeforeBuild ==
    /\ model = None => trace = None
    /\ (last.op = "fit" /\ model = None) =>
          (last.outcome = "RuntimeError" /\ last.value = None /\ fits = 0)

C2_Witness ==
    /\ last.op = "fit"
    /\ model = None
    /\ last.outcome = "RuntimeError"
    /\ trace = None

\* C3: while no fit has completed every getter raises RuntimeError and returns
\* nothing; once a fit has completed no getter raises RuntimeError.
C3_GettersNeedFit ==
    last.op \in Getters =>
        /\ fits = 0 => (last.outcome = "RuntimeError" /\ last.value = None)
        /\ fits > 0 => last.outcome # "RuntimeError"

C3_Witness ==
    /\ last.op = "get_changepoint_estimate"
    /\ model # None
    /\ fits = 0
    /\ last.outcome = "RuntimeError"

\* C4: the instance holds one trace, the one the latest successful fit returned;
\* a refit overwrites the earlier one and get_trace returns the latest.
C4_LatestTrace ==
    /\ fits > 0 => (trace # None /\ trace.id = fits)
    /\ fits = 0 => trace = None
    /\ (last.op = "fit" /\ last.outcome = "ok") => last.value = trace
    /\ (last.op = "get_trace" /\ last.outcome = "ok") =>
          (last.value = trace /\ last.value.id = fits)

C4_Witness ==
    /\ fits = 2
    /\ last.op = "get_trace"
    /\ last.outcome = "ok"
    /\ last.value.id = 2

\* C5: the trace an instance holds was sampled from the model the instance holds
\* now (no build_model after a fit changes the model); stated for the models with
\* min_segment_length >= 1, the configurations the data model admits.
C5_TraceFromCurrentModel ==
    (trace # None /\ model.tau_lower >= 1 /\ trace.sampled_from.tau_lower >= 1) =>
        trace.sampled_from = model

\* C6: build_model with min_segment_length <= 0 raises ValueError.
C6_NonPositiveRejected ==
    (last.op = "build_model" /\ last.args[2] <= 0) => last.outcome = "ValueError"

\* C7: for every tau of the support and every observation t, the likelihood puts
\* t in the 'before' regime exactly when t < tau; stated for the models with
\* min_segment_length >= 1.
C7_BeforeIffLess ==
    (model # None /\ model.tau_lower >= 1) =>
        \A tau \in TauSupport(model), t \in 0..(n_observations - 1) :
            Regime(tau, t) = "before" <=> t < tau

\* C9: for every tau of the support of an accepted model both regimes hold at
\* least min_segment_length observations and neither is empty.
C9_SegmentsLongEnough ==
    model # None =>
        \A tau \in TauSupport(model), r \in {"before", "after"} :
            /\ Cardinality(Segment(model, tau, r)) >= model.tau_lower
            /\ Segment(model, tau, r) # {}

(***************************************************************************)
(* Properties of the point estimate (checked under SpecFitted)             *)
(***************************************************************************)
\* the tau draws of the fitted trace, chain after chain
AllDraws ==
    LET a == trace.posterior.tau
        per == Len(a[1])
    IN  [k \in 1..(Len(a) * per) |-> a[((k - 1) \div per) + 1][((k - 1) % per) + 1]]

RECURSIVE Total(_, _)
Total(f, n) == IF n = 0 THEN 0 ELSE f[n] + Total(f, n - 1)

Abs(x) == IF x < 0 THEN 0 - x ELSE x

Occurrences(f, v) == Cardinality({k \in DOMAIN f : f[k] = v})

\* the index an estimate call returned
ReturnedIndex ==
    IF last.op = "get_changepoint_estimate" THEN last.value.index ELSE last.value[1].index

EstimateCall(method) ==
    /\ last.op \in {"get_changepoint_estimate", "identify_changepoints"}
    /\ last.outcome = "ok"
    /\ (IF last.op = "get_changepoint_estimate" THEN last.args ELSE last.args[1]) = method

C10_PointEstimate ==
    LET n == Len(AllDraws)
        t == Sorted(AllDraws)
        twiceMedian == IF n % 2 = 1 THEN 2 * t[(n + 1) \div 2]
                       ELSE t[n \div 2] + t[n \div 2 + 1]
    IN  /\ EstimateCall("mean") => 2 * Abs(n * ReturnedIndex - Total(AllDraws, n)) <= n
        /\ EstimateCall("median") => Abs(2 * ReturnedIndex - twiceMedian) <= 1
        /\ EstimateCall("mode") =>
              /\ Occurrences(AllDraws, ReturnedIndex) >= 1
              /\ \A k \in DOMAIN AllDraws :
                    Occurrences(AllDraws, AllDraws[k]) <= Occurrences(AllDraws, ReturnedIndex)
        /\ (last.op = "get_changepoint_estimate" /\ last.args \notin {"mean", "median", "mode"}) =>
              (last.outcome = "ValueError" /\ last.value = None)
        /\ (last.op = "identify_changepoints" /\ last.args[1] \notin {"mean", "median", "mode"}) =>
              (last.outcome = "ValueError" /\ last.value = None)
        /\ (last.op = "get_changepoint_estimate" /\ last.args \in {"mean", "median"}) =>
              last.outcome # "ValueError"
        /\ (last.op = "get_changepoint_estimate" /\ last.args \in {"mean", "median", "mode"}
                /\ \A k \in DOMAIN AllDraws : AllDraws[k] \in 0..(n_observations - 1)) =>
              last.outcome = "ok"

C10_Witness ==
    /\ last.op = "identify_changepoints"
    /\ last.outcome = "ok"
    /\ last.args[1] = "mean"
    /\ Len(trace.posterior.tau) = 2
    /\ Total(AllDraws, Len(AllDraws)) % Len(AllDraws) # 0
    /\ Len(AllDraws) * last.value[1].index > Total(AllDraws, Len(AllDraws))

\* C11: for every confidence in (0,1) and every trace whose tau draws are all
\* indices of the series, identify_changepoints with a recognised method returns
\* an index in [0, N) and a credible interval with 0 <= lower <= upper < N.
C11_IndexAndIntervalInRange ==
    (/\ last.op = "identify_changepoints"
     /\ last.args[3] = trace.id
     /\ last.args[1] \in {"mean", "median", "mode"}
     /\ \A k \in DOMAIN AllDraws : AllDraws[k] \in 0..(n_observations - 1)) =>
        /\ last.outcome = "ok"
        /\ last.value[1].index \in 0..(n_observations - 1)
        /\ last.value[1].credible_interval[1] \in 0..(n_observations - 1)
        /\ last.value[1].credible_interval[2] \in 0..(n_observations - 1)
        /\ last.value[1].credible_interval[1] <= last.value[1].credible_interval[2]

C11_Witness ==
    /\ last.op = "identify_changepoints"
    /\ last.args[3] = trace.id
    /\ last.args[2] # DefaultConfidence
    /\ last.outcome = "ok"
    /\ \A k \in DOMAIN AllDraws : AllDraws[k] \in 0..(n_observations - 1)
    /\ last.value[1].credible_interval[1] < last.value[1].credible_interval[2]

(***************************************************************************)
(* Properties of quantify_impact (checked under SpecImpact)                *)
(***************************************************************************)
ImpactCall ==
    /\ last.op = "quantify_impact"
    /\ last.outcome = "ok"

\* the draws of the two regime means, and sums that decide the sign of
\* mu_after - mu_before and whether the change is at least 5% of |mu_before|
Mu1 == Flatten(trace.posterior.mu_1)

Mu2 == Flatten(trace.posterior.mu_2)

\* (mu_after - mu_before) * len(Mu1) * len(Mu2)
ScaledChange == Total(Mu2, Len(Mu2)) * Len(Mu1) - Total(Mu1, Len(Mu1)) * Len(Mu2)

\* |mean_change_pct| >= 5, the percentage being infinite when mu_before = 0
AtLeastFivePercent ==
    \/ Total(Mu1, Len(Mu1)) = 0
    \/ Abs(ScaledChange) * 100 >= 5 * Abs(Total(Mu1, Len(Mu1))) * Len(Mu2)

\* C12: quantify_impact reports 'increase' exactly when mean_change > 0 and
\* |mean_change_pct| >= 5, 'decrease' exactly when mean_change < 0 and
\* |mean_change_pct| >= 5, and 'minimal' in every other case.
C12_DirectionLabel ==
    ImpactCall =>
        /\ last.value.direction = "increase" <=> (ScaledChange > 0 /\ AtLeastFivePercent)
        /\ last.value.direction = "decrease" <=> (ScaledChange < 0 /\ AtLeastFivePercent)
        /\ last.value.direction = "minimal" <=> (ScaledChange = 0 \/ ~AtLeastFivePercent)

\* C13: quantify_impact reports mean_change = mu_after - mu_before and
\* mean_change_pct = mean_change / |mu_before| * 100 whenever mu_before is not 0;
\* when mu_before is exactly 0 it returns, without raising, an infinite
\* mean_change_pct, whatever mu_after is.
C13_MeanChangePct ==
    (last.op = "quantify_impact" /\ last.args[2] = trace.id) =>
        /\ last.outcome = "ok"
        /\ last.value.mean_change.den > 0
        /\ last.value.mean_change.num * Len(Mu1) * Len(Mu2)
              = ScaledChange * last.value.mean_change.den
        /\ Total(Mu1, Len(Mu1)) # 0 =>
              /\ last.value.mean_change_pct.den > 0
              /\ last.value.mean_change_pct.num * Abs(Total(Mu1, Len(Mu1))) * Len(Mu2)
                    = ScaledChange * 100 * last.value.mean_change_pct.den
        /\ Total(Mu1, Len(Mu1)) = 0 => last.value.mean_change_pct = Infinity

C13_Witness ==
    /\ ImpactCall
    /\ Total(Mu1, Len(Mu1)) = 0
    /\ Len(Mu1) > 1
    /\ ScaledChange < 0
    /\ last.value.mean_change_pct = Infinity

\* mu_after - mu_before, from the draws
ExpectedChange == Rat(ScaledChange, Len(Mu1) * Len(Mu2))

\* |mean_change| / std(series) < a / b, for a series that is not constant
RatioBelow(a, b) ==
    ExpectedChange.num * ExpectedChange.num * Len(data.values) * Len(data.values) * b * b
        < a * a * ExpectedChange.den * ExpectedChange.den * VarianceTimesN2(data.values)

\* the label the thresholds 0.2, 0.5, 1.0, 2.0 give: below(a, b) says r < a / b
LabelOf(below(_, _)) ==
    IF below(1, 5) THEN "negligible"
    ELSE IF below(1, 2) THEN "small"
    ELSE IF below(1, 1) THEN "moderate"
    ELSE IF below(2, 1) THEN "large"
    ELSE "very large"

\* r = |mean_change| / std(series), infinite over a constant series
QuotientBelow(a, b) == VarianceTimesN2(data.values) > 0 /\ RatioBelow(a, b)

\* r = |mean_change| / std(series), and r = 0 over a constant series
GuardedBelow(a, b) == VarianceTimesN2(data.values) = 0 \/ RatioBelow(a, b)

\* C14 as stated: the magnitude label is the one the thresholds give on
\* r = |mean_change| / std(series) (checked wherever that quotient is defined,
\* a nonzero change over a constant series making it infinite).
C14_MagnitudeOfQuotient ==
    (ImpactCall /\ (VarianceTimesN2(data.values) > 0 \/ ScaledChange # 0)) =>
        last.value.magnitude = LabelOf(QuotientBelow)

\* C14: quantify_impact assigns exactly one magnitude label from r, where
\* r = |mean_change| / std(series) when std(series) > 0 and r = 0 when the series
\* is constant: 'negligible' if r < 0.2, 'small' if 0.2 <= r < 0.5, 'moderate' if
\* 0.5 <= r < 1.0, 'large' if 1.0 <= r < 2.0, 'very large' if r >= 2.0.
C14_MagnitudeLabel ==
    ImpactCall =>
        /\ last.value.magnitude = LabelOf(GuardedBelow)
        /\ last.value.magnitude = "negligible" <=> GuardedBelow(1, 5)
        /\ last.value.magnitude = "small" <=> (~GuardedBelow(1, 5) /\ GuardedBelow(1, 2))
        /\ last.value.magnitude = "moderate" <=> (~GuardedBelow(1, 2) /\ GuardedBelow(1, 1))
        /\ last.value.magnitude = "large" <=> (~GuardedBelow(1, 1) /\ GuardedBelow(2, 1))
        /\ last.value.magnitude = "very large" <=> ~GuardedBelow(2, 1)

C14_Witness ==
    /\ ImpactCall
    /\ VarianceTimesN2(data.values) = 0
    /\ ScaledChange # 0
    /\ last.value.magnitude = "negligible"

\* lo <= m <= hi for a real m and integers lo, hi
Within(m, lo, hi) == lo * m.den <= m.num /\ m.num <= hi * m.den

SpansAllDraws(s) == (HdiProbDefault[1] * Len(s)) \div HdiProbDefault[2] = Len(s) - 1

\* the point estimate is the mean of the draws, the interval runs between two
\* draws, lower first, and contains the mean when it spans all the draws
MeanAndInterval(s, m, ci) ==
    /\ m.den > 0
    /\ m.num * Len(s) = Total(s, Len(s)) * m.den
    /\ ci[1] <= ci[2]
    /\ \E j, k \in DOMAIN s : ci[1] = s[j] /\ ci[2] = s[k]
    /\ \E j, k \in DOMAIN s : Within(m, s[j], s[k])
    /\ SpansAllDraws(s) => Within(m, ci[1], ci[2])

AssociateCall ==
    /\ last.op = "associate_with_events"
    /\ last.outcome = "ok"

\* event k of the table, days after change point i (negative: before)
DaysAfter(i, k) == events.rows[k][last.args[2]] - changepoints[i].date

\* the events of the table within the window of the call around change point i
InWindow(i) ==
    {k \in 1..Len(events.rows) : Abs(DaysAfter(i, k)) <= last.args[1]}

\* C16: for each change point with date d an event is in associated_events exactly
\* when its date lies in [d - window_days, d + window_days]; its signed distance
\* is event_date - d in days; num_events_in_window counts these events (distances
\* -5, +3 and +40 with window_days = 30 give 2).
C16_ClosedWindow ==
    AssociateCall =>
        /\ Len(last.value) = Len(changepoints)
        /\ \A i \in 1..Len(changepoints) :
              LET found == last.value[i].associated_events
              IN  /\ {found[j].event_name : j \in 1..Len(found)} = InWindow(i)
                  /\ Len(found) = Cardinality(InWindow(i))
                  /\ last.value[i].num_events_in_window = Cardinality(InWindow(i))
                  /\ \A j \in 1..Len(found) :
                        /\ found[j][last.args[2]] = events.rows[found[j].event_name][last.args[2]]
                        /\ found[j].days_from_changepoint = DaysAfter(i, found[j].event_name)

C16_Witness ==
    /\ AssociateCall
    /\ last.args[1] = 30
    /\ Len(changepoints) > 0
    /\ Len(events.rows) = 3
    /\ \A k \in 1..3 : DaysAfter(1, k) = <<0 - 5, 3, 40>>[k]
    /\ last.value[1].num_events_in_window = 2

\* C17: associated_events is sorted ascending by absolute day-distance,
\* closest_event is its first element and no event of the window is nearer,
\* days_from_closest is that event's signed distance; with no event in the window
\* the call does not fail and returns an empty list, no closest_event, no
\* days_from_closest and a count of 0.
C17_SortedClosest ==
    /\ (/\ last.op = "associate_with_events"
        /\ last.args[2] \in events.columns
        /\ \A i \in 1..Len(changepoints) : "date" \in DOMAIN changepoints[i]) =>
           last.outcome = "ok"
    /\ AssociateCall =>
           \A i \in 1..Len(changepoints) :
              LET a == last.value[i]
                  found == a.associated_events
              IN  /\ \A j \in 1..(Len(found) - 1) :
                        Abs(found[j].days_from_changepoint)
                            <= Abs(found[j + 1].days_from_changepoint)
                  /\ IF InWindow(i) = {}
                     THEN /\ found = <<>>
                          /\ a.closest_event = None
                          /\ a.days_from_closest = None
                          /\ a.num_events_in_window = 0
                     ELSE /\ a.closest_event = found[1]
                          /\ \A k \in InWindow(i) :
                                Abs(a.closest_event.days_from_changepoint) <= Abs(DaysAfter(i, k))
                          /\ a.days_from_closest = a.closest_event.days_from_changepoint
                          /\ a.days_from_closest = DaysAfter(i, a.closest_event.event_name)

C17_Witness ==
    /\ AssociateCall
    /\ Len(events.rows) > 0
    /\ \E i, j \in 1..Len(changepoints) :
          /\ last.value[i].closest_event = None
          /\ last.value[j].num_events_in_window >= 2
          /\ last.value[j].days_from_closest < 0

\* C18: for a fixed change point and events table, a window w1 <= w2 gives a
\* num_events_in_window no larger than w2 does, and every event associated under
\* w1 is associated under w2.
C18_WiderWindowKeeps ==
    AssociateCall =>
        \A w \in WindowDays, i \in 1..Len(changepoints) :
            LET other == Nearby(events, last.args[2], changepoints[i].date, w)
                found == last.value[i].associated_events
            IN  /\ last.args[1] <= w =>
                      /\ last.value[i].num_events_in_window <= Len(other)
                      /\ \A j \in 1..Len(found) :
                            \E k \in 1..Len(other) : other[k].event_name = found[j].event_name
                /\ w <= last.args[1] =>
                      /\ Len(other) <= last.value[i].num_events_in_window
                      /\ \A k \in 1..Len(other) :
                            \E j \in 1..Len(found) : other[k].event_name = found[j].event_name

C18_Witness ==
    /\ AssociateCall
    /\ \E w \in WindowDays, i \in 1..Len(changepoints) :
          /\ last.args[1] < w
          /\ last.value[i].num_events_in_window > 0
          /\ last.value[i].num_events_in_window
                < Len(Nearby(events, last.args[2], changepoints[i].date, w))

\* C19: associate_with_events raises ValueError when the events table lacks the
\* date column and KeyError when a change-point record lacks 'date'; with both
\* defects the ValueError is raised; a failing call returns no associations.
C19_ErrorOrder ==
    last.op = "associate_with_events" =>
        /\ last.args[2] \notin events.columns =>
              (last.outcome = "ValueError" /\ last.value = None)
        /\ (/\ last.args[2] \in events.columns
            /\ \E i \in 1..Len(changepoints) : "date" \notin DOMAIN changepoints[i]) =>
              (last.outcome = "KeyError" /\ last.value = None)
        /\ last.outcome # "ok" => last.value = None

C19_Witness ==
    /\ last.op = "associate_with_events"
    /\ last.args[2] \notin events.columns
    /\ Len(changepoints) = 2
    /\ "date" \notin DOMAIN changepoints[2]
    /\ last.outcome = "ValueError"

(***************************************************************************)
(* Properties of check_convergence (checked under SpecDiagnostics)         *)
(***************************************************************************)
ConvergenceCall ==
    /\ last.op = "check_convergence"
    /\ last.outcome = "ok"

\* the variables a call checked
Checked ==
    IF last.args[1] = None THEN {trace.var_names[i] : i \in 1..Len(trace.var_names)}
    ELSE {last.args[1].names[i] : i \in 1..Len(last.args[1].names)}

\* R-hat <= rhat_threshold, ESS-bulk >= ess_bulk_threshold, ESS-tail >=
\* ess_tail_threshold; an undefined value satisfies no inequality
RhatWithin(var) == ~trace.summary[var].r_hat.nan /\ trace.summary[var].r_hat.v <= last.args[2]

EssBulkWithin(var) ==
    ~trace.summary[var].ess_bulk.nan /\ trace.summary[var].ess_bulk.v >= last.args[3]

EssTailWithin(var) ==
    ~trace.summary[var].ess_tail.nan /\ trace.summary[var].ess_tail.v >= last.args[4]

\* the (diagnostic, variable, threshold) triples the warning names
Named ==
    {<<last.value.warned[i].diagnostic, last.value.warned[i].var, last.value.warned[i].threshold>> :
        i \in 1..Len(last.value.warned)}

\* C20: check_convergence returns true exactly when every checked variable has
\* R-hat <= rhat_threshold, ESS-bulk >= ess_bulk_threshold and ESS-tail >=
\* ess_tail_threshold; otherwise it returns false and the reported issues name
\* every violating variable with the violated diagnostic and its threshold, and
\* no variable that violates nothing.
C20_ConvergedIffWithin ==
    ConvergenceCall =>
        /\ last.value.returned <=>
              \A var \in Checked : RhatWithin(var) /\ EssBulkWithin(var) /\ EssTailWithin(var)
        /\ ~last.value.returned =>
              Named = {<<"R-hat", var, last.args[2]>> : var \in {x \in Checked : ~RhatWithin(x)}}
                      \cup {<<"ESS bulk", var, last.args[3]>> :
                               var \in {x \in Checked : ~EssBulkWithin(x)}}
                      \cup {<<"ESS tail", var, last.args[4]>> :
                               var \in {x \in Checked : ~EssTailWithin(x)}}

DiagnosticsQueries ==
    {"get_hdi", "summary_stats", "get_rhat", "get_effective_n", "check_convergence"}

\* the parameter names a diagnostics call was asked for
Asked ==
    IF last.op = "get_hdi" THEN {last.args[1]}
    ELSE IF last.args[1] = None THEN {trace.var_names[i] : i \in 1..Len(trace.var_names)}
    ELSE {last.args[1].names[i] : i \in 1..Len(last.args[1].names)}

\* a diagnostics call asked for a name that is no variable of the trace
AskedAbsent ==
    /\ last.op \in DiagnosticsQueries
    /\ \E name \in Asked : name \notin DOMAIN trace.posterior

StatementCall == last.op = "generate_impact_statement"

Returned == StatementCall /\ last.outcome = "ok"

\* the statement has a line with this text
HasLine(text) == \E i \in 1..Len(last.value) : last.value[i].text = text

\* the dates of the change points written year-month-day
IsoDate == [d \in {59, 100, 147, 366} |->
               CASE d = 59 -> "2020-02-29"
                 [] d = 100 -> "2020-04-10"
                 [] d = 147 -> "2020-05-27"
                 [] d = 366 -> "2021-01-01"]

UpperCased ==
    [increase |-> "INCREASE", decrease |-> "DECREASE", minimal |-> "MINIMAL",
     negligible |-> "NEGLIGIBLE", small |-> "SMALL", moderate |-> "MODERATE",
     large |-> "LARGE"]

\* C22: a statement returned for a change-point record that carries a date
\* has the line "Change Point Detected: YYYY-MM-DD" with that date, the line
\* with the upper-cased direction label and the line with the upper-cased
\* magnitude label of the impact record, and it is the text the same inputs
\* always give.
C22_DateAndLabels ==
    (Returned /\ "date" \in DOMAIN last.args[1]) =>
        /\ HasLine("Change Point Detected: " \o IsoDate[last.args[1].date])
        /\ HasLine("   Direction: " \o UpperCased[last.args[2].direction])
        /\ HasLine("   Magnitude: " \o UpperCased[last.args[2].magnitude])
        /\ last.value = StatementResult(last.args[1], last.args[2], last.args[3]).value

C22_Witness ==
    /\ Returned
    /\ "date" \in DOMAIN last.args[1]
    /\ last.args[1].date = 59
    /\ HasLine("Change Point Detected: 2020-02-29")
    /\ HasLine("   Direction: DECREASE")
    /\ HasLine("   Magnitude: LARGE")

Supplied == last.args[3]

WithClosest == Supplied # None /\ Supplied.closest_event # None

Distance == AbsDays(Supplied.days_from_closest)

CloselyAligns(days) ==
    "   Timing closely aligns with major event (within " \o ToString(days) \o " days)."

PotentialAssociation(days) ==
    "   Potential association with event (" \o ToString(days) \o " days difference)."

\* the distances an association can report
Distances == 0..40

\* C23: a returned statement has the "closely aligns" hint exactly when an
\* association with a closest event at most 7 days away was supplied, the
\* "potential association" hint exactly when the closest event is more than
\* 7 and at most 30 days away, and no hint otherwise.
C23_CausalityHint ==
    Returned =>
        /\ (\E d \in Distances : HasLine(CloselyAligns(d)))
               <=> (WithClosest /\ Distance <= 7 /\ HasLine(CloselyAligns(Distance)))
        /\ (\E d \in Distances : HasLine(PotentialAssociation(d)))
               <=> (WithClosest /\ Distance > 7 /\ Distance <= 30
                    /\ HasLine(PotentialAssociation(Distance)))
        /\ (WithClosest /\ Distance <= 7) => HasLine(CloselyAligns(Distance))
        /\ (WithClosest /\ Distance > 7 /\ Distance <= 30)
               => HasLine(PotentialAssociation(Distance))

C23_Witness ==
    /\ Returned
    /\ WithClosest
    /\ Supplied.days_from_closest = 0 - 30
    /\ HasLine(PotentialAssociation(30))
    /\ ~ HasLine(CloselyAligns(30))

\* C29: given an association with a closest event that associate_with_events
\* returned, generate_impact_statement returns a statement with the lines
\* naming that event, its date and its distance in days.
C29_StatementForEveryAssociation ==
    (StatementCall /\ WithClosest) =>
        /\ last.outcome = "ok"
        /\ HasLine("   Event: " \o ToString(Supplied.closest_event.event_name))
        /\ HasLine("   Distance: " \o ToString(Supplied.days_from_closest) \o " days")

(***************************************************************************)
(* Properties of batch_analyze                                             *)
(***************************************************************************)
BatchReturned == batch # None /\ batch.pc = "returned"

\* the statement of the batch has a line with this text
BatchHasLine(text) ==
    \E i \in 1..Len(batch.statement) : batch.statement[i].text = text

\* C24: a batch_analyze call that returns has called identify_changepoints,
\* quantify_impact, associate_with_events (only when events were supplied) and
\* generate_impact_statement, in that order, and returns their four results;
\* without events the associations are None and the statement has no
\* associated-events section, with events it has one.
C24_BatchOrderAndResults ==
    BatchReturned =>
        /\ batch.calls = IF events = None
                         THEN <<"identify_changepoints", "quantify_impact",
                                "generate_impact_statement">>
                         ELSE <<"identify_changepoints", "quantify_impact",
                                "associate_with_events", "generate_impact_statement">>
        /\ last.op = "batch_analyze"
        /\ last.outcome = "ok"
        /\ last.value = [changepoints |-> batch.changepoints, impact |-> batch.impact,
                         associations |-> batch.associations, statement |-> batch.statement]
        /\ batch.changepoints
              = IdentifyResult(trace, data, DefaultConfidence, DefaultMethod).value
        /\ batch.impact = ImpactResult(trace, data, TRUE).value
        /\ (events = None) =>
              /\ "associations" \notin batch.has
              /\ last.value.associations = None
              /\ ~ BatchHasLine("Associated Events:")
        /\ (events # None) =>
              /\ \E a \in Associations(batch.changepoints, Len(batch.changepoints), events,
                                       DefaultDateColumn, batch.args[1]) :
                    last.value.associations = a
              /\ BatchHasLine("Associated Events:")

C24_Witness ==
    /\ BatchReturned
    /\ events # None
    /\ batch.associations[1].closest_event # None
    /\ BatchHasLine("Associated Events:")
    /\ BatchHasLine("   Event Date: 2020-01-03")

BatchFailed == batch # None /\ batch.pc = "raised"

Undated == data # None /\ ~ data.datetime_index

\* C27 as stated: over a series without timestamps, batch_analyze with any
\* events table ends in a lookup error.
C27_AnyTableLookupError ==
    (Undated /\ events # None /\ batch # None /\ batch.pc \in {"raised", "returned"}) =>
        (BatchFailed /\ last.outcome = "KeyError")

\* C27: over a series without timestamps the change-point record has no date;
\* batch_analyze with an events table that has the date column ends in
\* KeyError raised by associate_with_events and returns nothing, with a table
\* that lacks the column it ends in ValueError, and without events it returns
\* a statement that reports the change point by index.
C27_UndatedBatch ==
    (Undated /\ batch # None) =>
        /\ ("changepoints" \in batch.has) => ("date" \notin DOMAIN batch.changepoints[1])
        /\ (events # None) => (batch.pc # "returned" /\ "statement" \notin batch.has)
        /\ (events # None /\ batch.pc = "raised") =>
              /\ batch.calls = <<"identify_changepoints", "quantify_impact",
                                 "associate_with_events">>
              /\ last.op = "batch_analyze"
              /\ last.value = None
              /\ last.outcome = IF DefaultDateColumn \in events.columns
                                THEN "KeyError" ELSE "ValueError"
        /\ (events = None) => (batch.pc # "raised")
        /\ (events = None /\ batch.pc = "returned") =>
              /\ last.outcome = "ok"
              /\ BatchHasLine("Change Point Detected at Index: ")
              /\ \A i \in 1..Len(batch.statement) :
                    batch.statement[i].text = "Change Point Detected at Index: "
                        => batch.statement[i].value = batch.changepoints[1].index

C27_Witness ==
    /\ Undated
    /\ events # None
    /\ DefaultDateColumn \in events.columns
    /\ Len(events.rows) > 0
    /\ BatchFailed
    /\ last.op = "batch_analyze"
    /\ last.outcome = "KeyError"

(***************************************************************************)
(* Properties of the calls on a shared trace (checked under SpecShared)    *)
(***************************************************************************)
\* the result in last is the one its call gives on the trace, the series, the
\* events table and the change-point records as they are now
ResultOfCall ==
    /\ (last.op = "identify_changepoints" /\ last.args[3] = trace.id) =>
          last = IdentifyResult(trace, data, last.args[2], last.args[1])
    /\ (last.op = "quantify_impact" /\ last.args[2] = trace.id) =>
          last = ImpactResult(trace, data, last.args[1])
    /\ (last.op = "associate_with_events" /\ last.outcome = "ok") =>
          last.value \in Associations(changepoints, Len(changepoints),
                                      ToDatetime(events, last.args[2]), last.args[2],
                                      last.args[1])
    /\ (last.op = "generate_impact_statement") =>
          last = StatementResult(last.args[1], last.args[2], last.args[3])
    /\ (last.op = "get_hdi") => last = GetHdiResult(trace, last.args[1], last.args[2])
    /\ (last.op = "check_convergence") =>
          last = ConvergenceResult(trace, last.args[1], last.args[2], last.args[3],
                                   last.args[4])

C26_SeriesValidated ==
    /\ last.op = "__init__" =>
          /\ (last.args.kind # "Series") => last.outcome = "TypeError"
          /\ (last.args.kind = "Series" /\ last.args.len = 0) => last.outcome = "ValueError"
          /\ (last.args.kind = "Series" /\ last.args.nan) => last.outcome = "ValueError"
          /\ (last.outcome # "ok") => data = None
    /\ data # None => (data.kind = "Series" /\ data.len > 0 /\ ~ data.nan)

C26_Witness ==
    /\ last.op = "__init__"
    /\ last.args.kind = "Series"
    /\ last.args.len > 0
    /\ last.args.nan
    /\ last.outcome = "ValueError"
    /\ data = None

\* the call recorded by a step raised
Raised(op) == last'.op = op /\ last'.outcome # "ok"

InstanceUnchanged ==
    /\ data' = data
    /\ n_observations' = n_observations
    /\ model' = model
    /\ trace' = trace

PassesFilters(row, start_date, end_date, event_type) ==
    /\ start_date # None => row.date >= start_date.day
    /\ end_date # None => row.date <= end_date.day
    /\ (event_type # None /\ event_type # [name |-> ""]) => row.event_type = event_type.name

\* C30: get_events returns exactly the events that pass all of the supplied
\* filters: the date filters and the type filter together.
C30_AllFiltersApply ==
    (last.op = "get_events" /\ last.outcome = "ok") =>
        {last.value[k].id : k \in 1..Len(last.value)}
            = {i - 1 : i \in {j \in 1..Len(events.rows) :
                                PassesFilters(events.rows[j], last.args[1], last.args[2],
                                              last.args[3])}}

====
